---- MODULE Spec2Model ----
\* Model of the gateway service: startup (main, NewGateway), the gorilla/mux
\* dispatch that main configures, Gateway.AuthMiddleware, Gateway.validateJWT
\* and Gateway.ProxyHandler.  Go strings whose characters the code inspects
\* (request paths, the Authorization header) are sequences of one-character
\* strings; opaque values (identities, URLs, response bodies) are TLA+ strings.
EXTENDS Integers, Sequences, FiniteSets, TLC

VARIABLES Config, phase, gateway, req

vars == <<Config, phase, gateway, req>>

\* ------------------------------------------------------------------ bounds

\* number of inbound requests a behaviour handles (each runs concurrently)
MaxReq == 2

Requests == 1..MaxReq

\* ------------------------------------------------------- string literals

SP == " "
SLASH == "/"
NL == "\n"

S_api == <<"/", "a", "p", "i">>
S_auth == <<"/", "a", "u", "t", "h">>
S_blog == <<"/", "b", "l", "o", "g">>
S_user == <<"/", "u", "s", "e", "r">>
S_Bearer == <<"B", "e", "a", "r", "e", "r">>

\* the bypass prefix "/api/auth/" of AuthMiddleware
BypassPrefix == S_api \o S_auth \o <<SLASH>>

\* --------------------------------------------------- Go library functions

\* strings.HasPrefix
HasPrefix(s, p) == Len(s) >= Len(p) /\ SubSeq(s, 1, Len(p)) = p

\* position of the first occurrence of character c in s, 0 when there is none
IndexByte(s, c) ==
    IF \E i \in 1..Len(s) : s[i] = c
    THEN CHOOSE i \in 1..Len(s) : s[i] = c /\ \A j \in 1..(i - 1) : s[j] # c
    ELSE 0

\* strings.Split(s, sep) for a one-character separator: always at least one part
RECURSIVE Split(_, _)
Split(s, sep) ==
    LET i == IndexByte(s, sep) IN
    IF i = 0 THEN <<s>>
    ELSE <<SubSeq(s, 1, i - 1)>> \o Split(SubSeq(s, i + 1, Len(s)), sep)

\* strings.TrimRight(s, "/")
RECURSIVE TrimRightSlash(_)
TrimRightSlash(s) ==
    IF Len(s) > 0 /\ s[Len(s)] = SLASH THEN TrimRightSlash(SubSeq(s, 1, Len(s) - 1))
    ELSE s

\* path.Clean on a rooted path: the stack of kept elements after dropping
\* empty and "." elements and resolving ".." (".." at the root is dropped)
RECURSIVE CleanElems(_, _)
CleanElems(elems, stack) ==
    IF elems = <<>> THEN stack
    ELSE LET e == Head(elems) IN
         IF e = <<>> \/ e = <<".">> THEN CleanElems(Tail(elems), stack)
         ELSE IF e = <<".", ".">>
              THEN CleanElems(Tail(elems),
                              IF stack = <<>> THEN stack
                              ELSE SubSeq(stack, 1, Len(stack) - 1))
              ELSE CleanElems(Tail(elems), Append(stack, e))

RECURSIVE JoinSlash(_)
JoinSlash(elems) ==
    IF elems = <<>> THEN <<>>
    ELSE <<SLASH>> \o Head(elems) \o JoinSlash(Tail(elems))

pathClean(p) ==
    LET kept == CleanElems(Split(p, SLASH), <<>>) IN
    IF kept = <<>> THEN <<SLASH>> ELSE JoinSlash(kept)

\* mux's cleanPath: path.Clean, with the trailing slash put back
cleanPath(p) ==
    IF p = <<>> THEN <<SLASH>>
    ELSE LET q == IF p[1] # SLASH THEN <<SLASH>> \o p ELSE p
             np == pathClean(q)
         IN IF q[Len(q)] = SLASH /\ np # <<SLASH>> THEN np \o <<SLASH>> ELSE np

\* http.Header.Get: the value, "" when the header is absent
HeaderGet(h, k) == IF k \in DOMAIN h THEN h[k] ELSE <<>>

\* http.Header.Set: replaces every value the header had
HeaderSet(h, k, v) == [x \in DOMAIN h \cup {k} |-> IF x = k THEN v ELSE h[x]]

\* ------------------------------------------------------------ routing table

\* mutant: the catch-all registered first
Routes_CatchAllFirst ==
    << [prefix |-> S_api \o <<SLASH>>, target |-> "asp"],
       [prefix |-> S_api \o S_auth, target |-> "auth"],
       [prefix |-> S_api \o S_blog, target |-> "blog"],
       [prefix |-> S_api \o S_user, target |-> "user"] >>

\* main: the four PathPrefix(...).Subrouter() routes, in registration order
Routes ==
    << [prefix |-> S_api \o S_auth, target |-> "auth"],
       [prefix |-> S_api \o S_blog, target |-> "blog"],
       [prefix |-> S_api \o S_user, target |-> "user"],
       [prefix |-> S_api \o <<SLASH>>, target |-> "asp"] >>

\* the subrouter's only route, "/{path:.*}" appended to the prefix with its
\* trailing slashes trimmed: regexp ^<prefix>/(.*)$, where . matches no newline
SubrouterMatches(prefix, path) ==
    LET tpl == TrimRightSlash(prefix) \o <<SLASH>> IN
    /\ HasPrefix(path, tpl)
    /\ \A i \in (Len(tpl) + 1)..Len(path) : path[i] # NL

\* a PathPrefix route matches when its prefix regexp ^<prefix> and its
\* subrouter both match
RouteMatches(rt, path) == HasPrefix(path, rt.prefix) /\ SubrouterMatches(rt.prefix, path)

\* mux Router.Match: the first registered route that matches wins
Match(path) ==
    IF \E i \in 1..Len(Routes) : RouteMatches(Routes[i], path)
    THEN Routes[CHOOSE i \in 1..Len(Routes) :
                    /\ RouteMatches(Routes[i], path)
                    /\ \A j \in 1..(i - 1) : ~RouteMatches(Routes[j], path)].target
    ELSE "none"

\* ------------------------------------------------- auth backend's answers

\* what Client.Do can bring back: a transport error, or a response with a
\* status and a body that decodes (or not) into AuthValidateResponse
Ans(kind, status, decodes, u, r, n, e) ==
    [kind |-> kind, status |-> status, decodes |-> decodes,
     userID |-> u, role |-> r, username |-> n, error |-> e]

NoAnswer == Ans("none", 0, FALSE, "", "", "", "")
NetErr == Ans("neterr", 0, FALSE, "", "", "", "")
Resp(status, u, r, n, e) == Ans("resp", status, TRUE, u, r, n, e)
Garbled(status) == Ans("resp", status, FALSE, "", "", "", "")

StatusOK == 200
StatusMovedPermanently == 301
StatusUnauthorized == 401
StatusNotFound == 404
StatusBadGateway == 502

\* ------------------------------------------------------------- validateJWT

Err(fmt, arg, code) == [fmt |-> fmt, arg |-> arg, code |-> code]
NoErr == Err("", "", 0)

Result(u, r, n, err) == [userID |-> u, role |-> r, username |-> n, err |-> err]

\* json.NewDecoder(resp.Body).Decode(&authResp) fails exactly when the body
\* does not decode
DecodeFails(ans) == ~ans.decodes

\* mutant: only a payload missing both fields is refused
IncompleteIdentity_Both(ans) == ans.userID = "" /\ ans.role = ""

\* the check of lines 144-146 on the decoded success payload
IncompleteIdentity(ans) == ans.userID = "" \/ ans.role = ""

\* mutant: every failure is folded into one opaque error
validateJWT_Opaque(ans) ==
    IF \/ ans.kind = "neterr" \/ ans.status # StatusOK
       \/ DecodeFails(ans) \/ IncompleteIdentity(ans)
    THEN Result("", "", "", Err("validation failed", "", 0))
    ELSE Result(ans.userID, ans.role, ans.username, NoErr)

\* mutant: a payload naming a user is trusted whatever the status
validateJWT_TrustPayload(ans) ==
    IF ans.kind = "neterr"
    THEN Result("", "", "", Err("failed to contact AuthService: %w", "connection refused", 0))
    ELSE IF ~DecodeFails(ans) /\ ~IncompleteIdentity(ans)
    THEN Result(ans.userID, ans.role, ans.username, NoErr)
    ELSE IF ans.status # StatusOK
    THEN IF ~DecodeFails(ans) /\ ans.error # ""
         THEN Result("", "", "", Err("AuthService error: %s", ans.error, 0))
         ELSE Result("", "", "", Err("AuthService returned status: %d", "", ans.status))
    ELSE IF DecodeFails(ans)
    THEN Result("", "", "", Err("failed to decode AuthService response: %w", "invalid character", 0))
    ELSE Result("", "", "", Err("invalid AuthService response: missing userID or role", "", 0))

\* validateJWT from the return of Client.Do on: (userID, role, username, err)
validateJWT(ans) ==
    IF ans.kind = "neterr"
    THEN Result("", "", "", Err("failed to contact AuthService: %w", "connection refused", 0))
    ELSE IF ans.status # StatusOK
    THEN IF ~DecodeFails(ans) /\ ans.error # ""
         THEN Result("", "", "", Err("AuthService error: %s", ans.error, 0))
         ELSE Result("", "", "", Err("AuthService returned status: %d", "", ans.status))
    ELSE IF DecodeFails(ans)
    THEN Result("", "", "", Err("failed to decode AuthService response: %w", "invalid character", 0))
    ELSE IF IncompleteIdentity(ans)
    THEN Result("", "", "", Err("invalid AuthService response: missing userID or role", "", 0))
    ELSE Result(ans.userID, ans.role, ans.username, NoErr)

\* ------------------------------------------------------------------ state

NoHeaders == [k \in {} |-> ""]

IdleRequest ==
    [pc |-> "idle", path |-> <<>>, header |-> NoHeaders, afterFailure |-> FALSE,
     target |-> "none", token |-> <<>>, verifyCalls |-> 0, ans |-> NoAnswer,
     verified |-> FALSE, identity |-> Result("", "", "", NoErr), logged |-> NoErr,
     down |-> NoHeaders, attempts |-> 0, upstream |-> "none",
     stalled |-> "no", callerGone |-> FALSE,
     status |-> 0, body |-> ""]

\* http.Error / WriteHeader: the response that ends the request
Respond(q, status, body) == [q EXCEPT !.pc = "done", !.status = status, !.body = body]

ServiceNames == {"AuthServiceURL", "BlogServiceURL", "UserServiceURL", "AspServiceURL"}

\* environment values: unset, an endpoint, a string url.Parse rejects
URLSamples == {"", "http://svc:8080", "http://[::1"}

\* url.Parse's verdict on the sampled values
urlParseFails(u) == u = "http://[::1"

\* url.Parse's Scheme for the sampled values: "svc:8080" parses without error
\* as scheme "svc" with opaque part "8080"
urlScheme(u) ==
    IF u = "http://svc:8080" THEN "http" ELSE IF u = "svc:8080" THEN "svc" ELSE ""

\* http.Transport.RoundTrip refuses a URL whose scheme is not http or https
RoundTripPossible(u) == urlScheme(u) \in {"http", "https"}

NoGateway == [k \in {} |-> ""]

Init ==
    /\ Config \in [ServiceNames -> URLSamples]
    /\ phase = "init"
    /\ gateway = NoGateway
    /\ req = [r \in Requests |-> IdleRequest]

\* NewGateway: one proxy per backend, or an error when an address does not parse
NewGateway(config) ==
    IF \E k \in ServiceNames : urlParseFails(config[k]) THEN NoGateway
    ELSE [k \in ServiceNames |-> config[k]]

\* main up to ListenAndServe: log.Fatal on a missing variable or a gateway
\* that cannot be built, otherwise the server starts
main ==
    /\ phase = "init"
    /\ IF \E k \in ServiceNames : Config[k] = ""
       THEN phase' = "fatal" /\ gateway' = gateway
       ELSE IF NewGateway(Config) = NoGateway
       THEN phase' = "fatal" /\ gateway' = gateway
       ELSE phase' = "serving" /\ gateway' = NewGateway(Config)
    /\ UNCHANGED <<Config, req>>

\* ------------------------------------------------------------------ inputs

\* request paths (r.URL.Path, already percent-decoded)
\* "/api/auth/jwt"
P_authjwt == <<"/", "a", "p", "i", "/", "a", "u", "t", "h", "/", "j", "w", "t">>
\* "/api/auth"
P_auth == <<"/", "a", "p", "i", "/", "a", "u", "t", "h">>
\* "/api/blog/posts/5"
P_blog == <<"/", "a", "p", "i", "/", "b", "l", "o", "g", "/", "p", "o", "s", "t", "s", "/", "5">>
\* "/api/user/7"
P_user == <<"/", "a", "p", "i", "/", "u", "s", "e", "r", "/", "7">>
\* "/api/anything-else"
P_other == <<"/", "a", "p", "i", "/", "a", "n", "y", "t", "h", "i", "n", "g", "-", "e", "l", "s", "e">>
\* "/health"
P_health == <<"/", "h", "e", "a", "l", "t", "h">>
\* "/api/blog/../auth/jwt"
P_dotdot == <<"/", "a", "p", "i", "/", "b", "l", "o", "g", "/", ".", ".", "/", "a", "u", "t", "h", "/", "j", "w", "t">>
\* "/./health"
P_dotslash == <<"/", ".", "/", "h", "e", "a", "l", "t", "h">>
\* "/api/blog/a\nb"
P_newline == <<"/", "a", "p", "i", "/", "b", "l", "o", "g", "/", "a", NL, "b">>

\* values of the Authorization header
\* ""
A_empty == <<>>
\* "Bearer t1"
A_bearer_t1 == <<"B", "e", "a", "r", "e", "r", " ", "t", "1">>
\* "Bearer t2"
A_bearer_t2 == <<"B", "e", "a", "r", "e", "r", " ", "t", "2">>
\* "Bearer "
A_bearer_nothing == <<"B", "e", "a", "r", "e", "r", " ">>
\* "Basic t1"
A_basic == <<"B", "a", "s", "i", "c", " ", "t", "1">>
\* "Bearer t1 x"
A_extra == <<"B", "e", "a", "r", "e", "r", " ", "t", "1", " ", "x">>
\* "Bearer"
A_bearer_only == <<"B", "e", "a", "r", "e", "r">>

Authorization(v) == [k \in {"Authorization"} |-> v]

\* inputs of the gate and router specification
Paths ==
    {P_authjwt, P_auth, P_blog, P_user, P_other, P_health, P_dotdot, P_dotslash,
     P_newline}

Headers ==
    {NoHeaders} \cup
    {Authorization(v) : v \in {A_empty, A_bearer_t1, A_bearer_nothing, A_basic,
                               A_extra, A_bearer_only}}

\* the requests of the gate and router specification: every path without
\* credentials and with a bearer token, every header on a bypassed, a gated and
\* an unrouted path
Inbound ==
    (Paths \X {NoHeaders, Authorization(A_bearer_t1)})
        \cup ({P_authjwt, P_blog, P_health} \X Headers)

Answers == {NetErr, Resp(StatusOK, "u1", "admin", "alice", "")}

\* ------------------------------------------------------- request handling

\* ProxyHandler: logs and calls proxy.ServeHTTP once, which makes one round
\* trip to the backend of the route that matched
ProxyHandler(q, hdr) == [q EXCEPT !.pc = "forwarding", !.down = hdr, !.attempts = @ + 1]

\* mutant: a failed round trip is tried a second time
ForwardFailed_Retry(q) ==
    IF q.attempts < 2
    THEN [q EXCEPT !.upstream = "unreachable", !.attempts = @ + 1]
    ELSE Respond([q EXCEPT !.upstream = "unreachable"], StatusBadGateway, "")

\* httputil.ReverseProxy's default error handler: 502, no second round trip
ForwardFailed(q) == Respond([q EXCEPT !.upstream = "unreachable"], StatusBadGateway, "")

\* the backend's response is relayed
ForwardRelayed(q) == Respond([q EXCEPT !.upstream = "ok"], StatusOK, "upstream")

\* mutant: the identity another request obtained for the same token is reused
validateJWTCall_Cached(q, token) ==
    IF \E s \in Requests : req[s].verified /\ req[s].token = token
    THEN LET s == CHOOSE s \in Requests : req[s].verified /\ req[s].token = token IN
         [q EXCEPT !.pc = "forwarding", !.token = token, !.verified = TRUE,
                   !.ans = req[s].ans, !.identity = req[s].identity,
                   !.down = req[s].down, !.attempts = @ + 1]
    ELSE [q EXCEPT !.pc = "verifying", !.token = token, !.verifyCalls = @ + 1]

\* validateJWT up to Client.Do: one POST <auth>/api/auth/jwt with the token
validateJWTCall(q, token) ==
    [q EXCEPT !.pc = "verifying", !.token = token, !.verifyCalls = @ + 1]

\* mutant: the bypass covers everything under /api/
Bypass_AnyApi(path) == HasPrefix(path, S_api \o <<SLASH>>)

\* mutant: no bypass at all
Bypass_Never(path) == FALSE

\* the bypass test of AuthMiddleware
Bypass(path) == HasPrefix(path, BypassPrefix)

\* the format test of AuthMiddleware on strings.Split(authHeader, " ")
BadFormat(parts) == Len(parts) # 2 \/ parts[1] # S_Bearer

\* mutant: on the bypass the caller's identity headers are removed
AuthMiddleware_StripOnBypass(q) ==
    IF Bypass(q.path)
    THEN ProxyHandler(q, [k \in DOMAIN q.header \ {"X-User-ID", "X-User-Role", "X-Username"}
                            |-> q.header[k]])
    ELSE LET authHeader == HeaderGet(q.header, "Authorization") IN
         IF authHeader = <<>>
         THEN Respond(q, StatusUnauthorized, "missing Authorization header")
         ELSE LET parts == Split(authHeader, SP) IN
              IF BadFormat(parts)
              THEN Respond(q, StatusUnauthorized, "invalid Authorization format")
              ELSE validateJWTCall(q, parts[2])

\* mutant: a request without credentials is let through as anonymous
AuthMiddleware_Anonymous(q) ==
    IF Bypass(q.path) THEN ProxyHandler(q, q.header)
    ELSE LET authHeader == HeaderGet(q.header, "Authorization") IN
         IF authHeader = <<>>
         THEN ProxyHandler(q, q.header)
         ELSE LET parts == Split(authHeader, SP) IN
              IF BadFormat(parts)
              THEN Respond(q, StatusUnauthorized, "invalid Authorization format")
              ELSE validateJWTCall(q, parts[2])

\* AuthMiddleware up to the call of validateJWT
AuthMiddleware(q) ==
    IF Bypass(q.path) THEN ProxyHandler(q, q.header)
    ELSE LET authHeader == HeaderGet(q.header, "Authorization") IN
         IF authHeader = <<>>
         THEN Respond(q, StatusUnauthorized, "missing Authorization header")
         ELSE LET parts == Split(authHeader, SP) IN
              IF BadFormat(parts)
              THEN Respond(q, StatusUnauthorized, "invalid Authorization format")
              ELSE validateJWTCall(q, parts[2])

\* mutant: a header the caller sent is kept (Add instead of Set)
SetIdentityHeaders_KeepCaller(h, res) ==
    LET add(m, k, v) == IF k \in DOMAIN m THEN m ELSE HeaderSet(m, k, v) IN
    add(add(add(h, "X-User-ID", res.userID), "X-User-Role", res.role),
        "X-Username", res.username)

\* the three r.Header.Set calls
SetIdentityHeaders(h, res) ==
    HeaderSet(HeaderSet(HeaderSet(h, "X-User-ID", res.userID),
                        "X-User-Role", res.role),
              "X-Username", res.username)

\* mutant: the verified identity is kept in a field shared by all requests,
\* so a request goes on with the identity another request obtained
AuthMiddlewareResume_SharedIdentity(q, ans) ==
    LET res == validateJWT(ans)
        others == {s \in Requests : req[s].verified}
        shared == IF others = {} THEN res
                  ELSE req[CHOOSE s \in others : TRUE].identity
    IN
    IF res.err # NoErr
    THEN Respond([q EXCEPT !.ans = ans, !.logged = res.err],
                 StatusUnauthorized, "invalid JWT")
    ELSE ProxyHandler([q EXCEPT !.ans = ans, !.verified = TRUE, !.identity = res],
                      SetIdentityHeaders(q.header, shared))

\* AuthMiddleware from the return of validateJWT on
AuthMiddlewareResume(q, ans) ==
    LET res == validateJWT(ans) IN
    IF res.err # NoErr
    THEN Respond([q EXCEPT !.ans = ans, !.logged = res.err],
                 StatusUnauthorized, "invalid JWT")
    ELSE ProxyHandler([q EXCEPT !.ans = ans, !.verified = TRUE, !.identity = res],
                      SetIdentityHeaders(q.header, res))

\* proxy.ServeHTTP with the inbound request's context already cancelled: the
\* round trip is abandoned and the default error handler writes 502
ProxyAborted(q) == Respond([q EXCEPT !.upstream = "aborted"], StatusBadGateway, "")

\* the outbound proxy request carries the inbound request's context
ContextCanceled(q) ==
    IF q.callerGone /\ q.pc = "forwarding" THEN ProxyAborted(q) ELSE q

\* the Config field behind each proxy of the Gateway
ProxyURL(target) ==
    IF target = "auth" THEN gateway["AuthServiceURL"]
    ELSE IF target = "blog" THEN gateway["BlogServiceURL"]
    ELSE IF target = "user" THEN gateway["UserServiceURL"]
    ELSE gateway["AspServiceURL"]

\* mutant: a path no route matches falls through to the catch-all backend
Dispatch_FallThrough(q) ==
    IF cleanPath(q.path) # q.path THEN Respond(q, StatusMovedPermanently, "")
    ELSE LET t == Match(q.path) IN
         IF t = "none" THEN AuthMiddleware([q EXCEPT !.target = "asp"])
         ELSE AuthMiddleware([q EXCEPT !.target = t])

\* mux Router.ServeHTTP: redirect an unclean path, answer 404 when no route
\* matches, otherwise run the middleware around the matched route's handler
Dispatch(q) ==
    IF cleanPath(q.path) # q.path THEN Respond(q, StatusMovedPermanently, "")
    ELSE LET t == Match(q.path) IN
         IF t = "none" THEN Respond(q, StatusNotFound, "404 page not found")
         ELSE AuthMiddleware([q EXCEPT !.target = t])

\* a request arrives and is handled up to its first outbound call
ServeHTTP(r, In) ==
    /\ phase = "serving"
    /\ req[r].pc = "idle"
    /\ \E in \in In :
         req' = [req EXCEPT ![r] =
                   Dispatch([req[r] EXCEPT
                               !.path = in[1], !.header = in[2],
                               !.afterFailure =
                                   \E s \in Requests : req[s].status = StatusBadGateway])]
    /\ UNCHANGED <<Config, phase, gateway>>

\* Client.Do returns in validateJWT
ClientDoReturns(r, A) ==
    /\ req[r].pc = "verifying"
    /\ req[r].stalled = "no"
    /\ \E ans \in A :
         /\ RoundTripPossible(gateway["AuthServiceURL"]) \/ ans = NetErr
         /\ req' = [req EXCEPT ![r] = ContextCanceled(AuthMiddlewareResume(req[r], ans))]
    /\ UNCHANGED <<Config, phase, gateway>>

\* the proxy's round trip ends: a response to relay, or an error
RoundTripReturns(r) ==
    /\ req[r].pc = "forwarding"
    /\ req[r].stalled = "no"
    /\ \/ /\ RoundTripPossible(ProxyURL(req[r].target))
          /\ req' = [req EXCEPT ![r] = ForwardRelayed(req[r])]
       \/ req' = [req EXCEPT ![r] = ForwardFailed(req[r])]
    /\ UNCHANGED <<Config, phase, gateway>>

Next ==
    \/ main
    \/ \E r \in Requests : ServeHTTP(r, Inbound)
    \/ \E r \in Requests : ClientDoReturns(r, Answers)
    \/ \E r \in Requests : RoundTripReturns(r)

Spec == Init /\ [][Next]_vars

\* ----------------------------------------------- verifier specification

\* identity headers a caller may send along
Spoofed ==
    [k \in {"X-User-ID", "X-User-Role", "X-Username"} |->
        IF k = "X-User-ID" THEN "root"
        ELSE IF k = "X-User-Role" THEN "superadmin" ELSE "mallory"]

WithHeaders(h, extra) ==
    [k \in DOMAIN h \cup DOMAIN extra |-> IF k \in DOMAIN extra THEN extra[k] ELSE h[k]]

VerifierHeaders ==
    {Authorization(A_bearer_t1),
     WithHeaders(Authorization(A_bearer_t1), Spoofed),
     Authorization(A_bearer_t2),
     WithHeaders(Authorization(A_bearer_t2), [k \in {"X-Username"} |-> "mallory"])}

\* the requests of the verifier specification: well-formed bearer headers on a
\* gated path, one of them on a bypassed path
VerifierInbound ==
    ({P_blog} \X VerifierHeaders) \cup {<<P_authjwt, Authorization(A_bearer_t1)>>}

VerifierAnswers ==
    {NetErr,
     Garbled(StatusOK),
     Resp(StatusOK, "u1", "admin", "alice", ""),
     Resp(StatusOK, "u1", "admin", "", ""),
     Resp(StatusOK, "u2", "user", "bob", ""),
     Resp(StatusOK, "", "admin", "alice", ""),
     Resp(StatusOK, "u1", "", "alice", ""),
     Garbled(StatusUnauthorized),
     Resp(StatusUnauthorized, "u1", "admin", "alice", ""),
     Resp(StatusUnauthorized, "", "", "", "token expired")}

NextVerifier ==
    \/ main
    \/ \E r \in Requests : ServeHTTP(r, VerifierInbound)
    \/ \E r \in Requests : ClientDoReturns(r, VerifierAnswers)
    \/ \E r \in Requests : RoundTripReturns(r)

SpecVerifier == Init /\ [][NextVerifier]_vars

\* ------------------------------------------------ identity specification

\* two callers with their own tokens on a gated path, and a bypassed request
\* with a non-bearer Authorization and identity headers of the caller's own
IdentityInbound ==
    {<<P_blog, Authorization(A_bearer_t1)>>,
     <<P_blog, Authorization(A_bearer_t2)>>,
     <<P_authjwt, WithHeaders(Authorization(A_basic), Spoofed)>>}

\* two identities, and the non-success answers: undecodable, a payload naming
\* a user, a payload with an error message
IdentityAnswers ==
    {Resp(StatusOK, "u1", "admin", "alice", ""),
     Resp(StatusOK, "u2", "user", "bob", ""),
     Garbled(StatusUnauthorized),
     Resp(StatusUnauthorized, "u1", "admin", "alice", ""),
     Resp(StatusUnauthorized, "", "", "", "token expired")}

NextIdentity ==
    \/ main
    \/ \E r \in Requests : ServeHTTP(r, IdentityInbound)
    \/ \E r \in Requests : ClientDoReturns(r, IdentityAnswers)
    \/ \E r \in Requests : RoundTripReturns(r)

SpecIdentity == Init /\ [][NextIdentity]_vars

\* ---------------------------------------------- dependency specification

\* a dependency stops answering the call a request waits on: it never accepts
\* the connection, or it accepts and never sends a response
Stalls == {"connect", "response"}

DependencyHangs(r) ==
    /\ req[r].pc \in {"verifying", "forwarding"}
    /\ req[r].stalled = "no"
    /\ \E how \in Stalls : req' = [req EXCEPT ![r].stalled = how]
    /\ UNCHANGED <<Config, phase, gateway>>

\* http.Client{Timeout: 10 * time.Second}: Client.Do returns an error when the
\* whole exchange has not finished in time
ClientTimeout(r) ==
    /\ req[r].pc = "verifying"
    /\ req' = [req EXCEPT ![r] = ContextCanceled(AuthMiddlewareResume(req[r], NetErr))]
    /\ UNCHANGED <<Config, phase, gateway>>

\* the reverse proxies are built with no Transport, so they use
\* http.DefaultTransport: its dialer gives up on a connection that is not
\* accepted; it has no deadline for the response of an accepted connection
DialTimeout(r) ==
    /\ req[r].pc = "forwarding"
    /\ req[r].stalled = "connect"
    /\ req' = [req EXCEPT ![r] = ForwardFailed(req[r])]
    /\ UNCHANGED <<Config, phase, gateway>>

\* the caller closes its connection while the request is being handled: the
\* server cancels the inbound request's context. The proxy's outbound request
\* carries that context; validateJWT builds its request with http.NewRequest,
\* which carries context.Background
CallerDisconnects(r) ==
    /\ req[r].pc \in {"verifying", "forwarding"}
    /\ ~req[r].callerGone
    /\ req' = [req EXCEPT ![r] = ContextCanceled([req[r] EXCEPT !.callerGone = TRUE])]
    /\ UNCHANGED <<Config, phase, gateway>>

DepsInbound == {<<P_blog, Authorization(A_bearer_t1)>>, <<P_authjwt, NoHeaders>>}

\* the steps by which the gateway ends a request it is handling
Completes(r) ==
    \/ ClientDoReturns(r, Answers)
    \/ ClientTimeout(r)
    \/ RoundTripReturns(r)
    \/ DialTimeout(r)

NextDeps ==
    \/ main
    \/ \E r \in Requests : ServeHTTP(r, DepsInbound)
    \/ \E r \in Requests : Completes(r)
    \/ \E r \in Requests : DependencyHangs(r)
    \/ \E r \in Requests : CallerDisconnects(r)

SpecDeps == Init /\ [][NextDeps]_vars

\* ------------------------------------------------- startup specification

\* environment values: the samples of Init and a host:port without a scheme
StartupURLSamples == URLSamples \cup {"svc:8080"}

InitStartup ==
    /\ Config \in [ServiceNames -> StartupURLSamples]
    /\ phase = "init"
    /\ gateway = NoGateway
    /\ req = [r \in Requests |-> IdleRequest]

StartupInbound == {<<P_blog, Authorization(A_bearer_t1)>>, <<P_authjwt, NoHeaders>>}

NextStartup ==
    \/ main
    \/ \E r \in Requests : ServeHTTP(r, StartupInbound)
    \/ \E r \in Requests : ClientDoReturns(r, Answers)
    \/ \E r \in Requests : RoundTripReturns(r)

SpecStartup == InitStartup /\ [][NextStartup]_vars

\* ------------------------------------------------------------------ claims

\* vocabulary of the claims, stated on the request records, not on the code
Arrived(q) == q.pc # "idle"
Done(q) == q.pc = "done"
UnderBypassPrefix(q) == HasPrefix(q.path, BypassPrefix)
AuthorizationOf(q) == IF "Authorization" \in DOMAIN q.header THEN q.header["Authorization"] ELSE <<>>
Forwarded(q) == q.attempts > 0
VerifierInvoked(q) == q.verifyCalls > 0 \/ q.ans # NoAnswer
VerifierSaidYes(q) == q.verified /\ q.ans.kind = "resp" /\ q.ans.status = StatusOK
GateRejected(q) ==
    /\ Done(q)
    /\ q.status = StatusUnauthorized
    /\ q.body \in {"missing Authorization header", "invalid Authorization format", "invalid JWT"}

\* C1: a request is forwarded to the blog, user or catch-all backend only
\* after the verifier returned success for that request's own bearer token; a
\* request the gate answers with 401 is never forwarded; the only requests
\* forwarded without a verification have a path under /api/auth/ and go to the
\* auth backend.
C1_ForwardOnlyAfterVerification ==
    \A r \in Requests :
        LET q == req[r] IN
        /\ (Forwarded(q) /\ q.target \in {"blog", "user", "asp"}) =>
               /\ VerifierSaidYes(q)
               /\ q.verifyCalls = 1
               /\ AuthorizationOf(q) = S_Bearer \o <<SP>> \o q.token
        /\ GateRejected(q) => ~Forwarded(q) /\ q.upstream = "none"
        /\ (Forwarded(q) /\ ~VerifierSaidYes(q)) =>
               UnderBypassPrefix(q) /\ q.target = "auth" /\ ~VerifierInvoked(q)

\* C1 witness: a verified request under way to the blog backend, another one
\* rejected by the gate after a failed verification
C1_Witness ==
    \E r, s \in Requests :
        /\ Forwarded(req[r]) /\ req[r].target = "blog" /\ VerifierSaidYes(req[r])
        /\ GateRejected(req[s]) /\ req[s].body = "invalid JWT"

\* C2: for a request under /api/auth/ the gate never invokes the verifier,
\* whatever the Authorization header is.
C2_BypassNeverVerifies ==
    \A r \in Requests :
        (Arrived(req[r]) /\ UnderBypassPrefix(req[r])) => ~VerifierInvoked(req[r])

\* C2 witness: bypassed requests forwarded with a well-formed and with a
\* malformed Authorization header
C2_Witness ==
    \E r, s \in Requests :
        /\ UnderBypassPrefix(req[r]) /\ Forwarded(req[r]) /\ req[r].target = "auth"
        /\ AuthorizationOf(req[r]) = A_bearer_t1
        /\ UnderBypassPrefix(req[s]) /\ Forwarded(req[s]) /\ req[s].target = "auth"
        /\ AuthorizationOf(req[s]) = A_basic

\* C3 as stated: outside /api/auth/, whatever the path (also one no routing
\* rule matches), an absent or empty Authorization header yields 401 and no
\* outbound call.
C3_Original ==
    \A r \in Requests :
        LET q == req[r] IN
        (Arrived(q) /\ ~UnderBypassPrefix(q) /\ AuthorizationOf(q) = <<>>) =>
            /\ Done(q) /\ q.status = StatusUnauthorized
            /\ ~Forwarded(q) /\ ~VerifierInvoked(q)

\* C3 amended: outside /api/auth/, an absent or empty Authorization header
\* never leads to an outbound call; the outcome is 401 when a routing rule
\* matches the path, and the router's own answer (404 for no matching rule,
\* 301 for a path not in canonical form) otherwise.
C3_MissingHeaderNoOutboundCall ==
    \A r \in Requests :
        LET q == req[r] IN
        (Arrived(q) /\ ~UnderBypassPrefix(q) /\ AuthorizationOf(q) = <<>>) =>
            /\ Done(q) /\ ~Forwarded(q) /\ ~VerifierInvoked(q)
            /\ q.target # "none" =>
                   q.status = StatusUnauthorized /\ q.body = "missing Authorization header"
            /\ q.target = "none" => q.status \in {StatusNotFound, StatusMovedPermanently}

\* C3 witness: 401 for a routed path without the header, 404 for an unrouted one
C3_Witness ==
    \E r, s \in Requests :
        /\ req[r].path = P_blog /\ req[r].header = NoHeaders
        /\ req[r].status = StatusUnauthorized
        /\ req[s].path = P_health /\ req[s].header = Authorization(A_empty)
        /\ req[s].status = StatusNotFound

\* a header value of exactly two space-separated segments, "Bearer" and a
\* token that is not empty
WellFormedBearer(h) ==
    /\ HasPrefix(h, S_Bearer \o <<SP>>)
    /\ Len(h) > Len(S_Bearer) + 1
    /\ \A i \in (Len(S_Bearer) + 2)..Len(h) : h[i] # SP

\* C4 as stated, for the requests that reach the gate: outside /api/auth/, an
\* Authorization header that is not "Bearer <token>" (wrong scheme, no token,
\* "Bearer " with an empty second segment, extra segments) yields 401 and the
\* verifier is not invoked.
C4_MalformedHeaderRejected ==
    \A r \in Requests :
        LET q == req[r] IN
        (/\ Arrived(q) /\ q.target # "none" /\ ~UnderBypassPrefix(q)
         /\ AuthorizationOf(q) # <<>> /\ ~WellFormedBearer(AuthorizationOf(q))) =>
            /\ Done(q) /\ q.status = StatusUnauthorized
            /\ ~VerifierInvoked(q) /\ ~Forwarded(q)

\* the backend each prefix of section 6 names
PrefixTarget(path) ==
    IF HasPrefix(path, S_api \o S_auth \o <<SLASH>>) THEN "auth"
    ELSE IF HasPrefix(path, S_api \o S_blog \o <<SLASH>>) THEN "blog"
    ELSE IF HasPrefix(path, S_api \o S_user \o <<SLASH>>) THEN "user"
    ELSE IF HasPrefix(path, S_api \o <<SLASH>>) THEN "asp"
    ELSE "none"

SingleLine(path) == \A i \in 1..Len(path) : path[i] # NL

\* the sampled paths that are in canonical form and hold no newline
CanonicalSingleLinePaths == {p \in Paths : cleanPath(p) = p /\ SingleLine(p)}

\* C7: routing is most-specific-first: whenever the router selects a backend
\* for a path it is auth under /api/auth/, blog under /api/blog/, user under
\* /api/user/ and the catch-all for any other path under /api/, never the
\* catch-all under a named prefix; and every canonical single-line path
\* under /api/ gets its backend selected.
C7_MostSpecificFirst ==
    \A r \in Requests :
        LET q == req[r] IN
        /\ q.target # "none" => q.target = PrefixTarget(q.path)
        /\ (q.target = "asp") =>
               /\ ~HasPrefix(q.path, S_api \o S_auth \o <<SLASH>>)
               /\ ~HasPrefix(q.path, S_api \o S_blog \o <<SLASH>>)
               /\ ~HasPrefix(q.path, S_api \o S_user \o <<SLASH>>)
        /\ (Arrived(q) /\ q.path \in CanonicalSingleLinePaths) =>
               q.target = PrefixTarget(q.path)
        /\ Forwarded(q) => q.target = PrefixTarget(q.path) /\ q.target # "none"

\* C7 witness: /api/blog/posts/5 forwarded to blog, /api/anything-else to the
\* catch-all
C7_Witness ==
    \E r, s \in Requests :
        /\ req[r].path = P_blog /\ Forwarded(req[r]) /\ req[r].target = "blog"
        /\ req[s].path = P_other /\ Forwarded(req[s]) /\ req[s].target = "asp"

\* what a request brings and meets, and what it gets
InputsOf(q) == <<q.path, q.header, q.ans, q.upstream>>
OutcomeOf(q) == <<q.status, q.body, q.target, q.verified, q.down, q.attempts, q.verifyCalls>>

\* C8: a request whose backend is unreachable gets 502 after one forwarding
\* attempt; the gateway keeps serving with its configuration intact, and a
\* request that arrives after the failure is handled exactly as one with the
\* same inputs that arrived before it.
C8_BadGatewayNoRetryKeepsServing ==
    /\ \A r \in Requests :
           req[r].upstream = "unreachable" =>
               /\ Done(req[r]) /\ req[r].status = StatusBadGateway
               /\ req[r].attempts = 1
    /\ (\E r \in Requests : req[r].status = StatusBadGateway) =>
           phase = "serving" /\ gateway = NewGateway(Config)
    /\ \A r, s \in Requests :
           (/\ req[r].afterFailure /\ ~req[s].afterFailure
            /\ Done(req[r]) /\ Done(req[s])
            /\ InputsOf(req[r]) = InputsOf(req[s])) =>
               OutcomeOf(req[r]) = OutcomeOf(req[s])

\* C8 witness: one request ended 502, a request that arrived afterwards was
\* verified, forwarded and answered by its backend
C8_Witness ==
    \E r, s \in Requests :
        /\ req[s].status = StatusBadGateway /\ req[s].attempts = 1
        /\ req[r].afterFailure /\ Done(req[r])
        /\ req[r].status = StatusOK /\ req[r].verified /\ req[r].upstream = "ok"

\* C5: a request that passes the gate after a successful verification is
\* handed on with X-User-ID, X-User-Role and X-Username equal to the subject,
\* role and display name the auth backend returned for it, whatever the
\* caller sent in those headers, also when the display name is empty.
C5_IdentityHeadersOverwritten ==
    \A r \in Requests :
        LET q == req[r] IN
        (Forwarded(q) /\ VerifierSaidYes(q)) =>
            /\ {"X-User-ID", "X-User-Role", "X-Username"} \subseteq DOMAIN q.down
            /\ q.down["X-User-ID"] = q.ans.userID
            /\ q.down["X-User-Role"] = q.ans.role
            /\ q.down["X-Username"] = q.ans.username

\* C5 witness: the caller sent all three headers, the verified display name
\* is empty, and the request went on with the verified values
C5_Witness ==
    \E r \in Requests :
        LET q == req[r] IN
        /\ Forwarded(q) /\ VerifierSaidYes(q)
        /\ q.header = WithHeaders(Authorization(A_bearer_t1), Spoofed)
        /\ q.ans.username = ""
        /\ q.down["X-Username"] = "" /\ q.down["X-User-ID"] = "u1"

\* C6: a success status with an empty userID or an empty role is a
\* verification error (incomplete identity) and the request gets 401 without
\* being forwarded; every verification reported successful has a non-empty
\* subject and a non-empty role.
C6_IncompleteIdentityRejected ==
    \A r \in Requests :
        LET q == req[r] IN
        /\ (/\ q.ans.kind = "resp" /\ q.ans.status = StatusOK /\ q.ans.decodes
            /\ (q.ans.userID = "" \/ q.ans.role = "")) =>
               /\ ~q.verified /\ GateRejected(q) /\ ~Forwarded(q)
               /\ q.logged.fmt = "invalid AuthService response: missing userID or role"
        /\ q.verified =>
               /\ q.identity.userID # "" /\ q.identity.role # ""
               /\ q.identity.err = NoErr

\* C6 witness: {userID: "", role: "admin"} with status 200 ended in 401, and a
\* verification with an empty display name succeeded
C6_Witness ==
    \E r, s \in Requests :
        /\ req[r].ans = Resp(StatusOK, "", "admin", "alice", "")
        /\ GateRejected(req[r])
        /\ req[s].verified /\ req[s].identity.username = ""

\* a request the gate does not bypass
Gated(q) == Arrived(q) /\ q.target # "none" /\ ~UnderBypassPrefix(q)

\* C9: the verifier is invoked exactly once for each gated request with a
\* well-formed bearer header, nothing is reused across requests: two
\* identical requests each make their own call and, given the same answer,
\* carry the same identity headers.
C9_OneFreshVerificationEach ==
    /\ \A r \in Requests :
           LET q == req[r] IN
           /\ q.verifyCalls <= 1
           /\ (Gated(q) /\ WellFormedBearer(AuthorizationOf(q))) =>
                  /\ q.verifyCalls = 1
                  /\ q.verified => q.ans # NoAnswer
    /\ \A r, s \in Requests :
           (/\ r # s /\ Gated(req[r]) /\ Gated(req[s])
            /\ req[r].path = req[s].path /\ req[r].header = req[s].header
            /\ req[r].ans # NoAnswer /\ req[r].ans = req[s].ans) =>
               /\ req[r].verifyCalls = 1 /\ req[s].verifyCalls = 1
               /\ req[r].verified = req[s].verified
               /\ req[r].down = req[s].down

\* C9 witness: two identical requests with the same token, each verified by
\* its own call, forwarded with the same identity headers
C9_Witness ==
    \E r, s \in Requests :
        /\ r # s
        /\ req[r].path = P_blog /\ req[s].path = P_blog
        /\ req[r].header = Authorization(A_bearer_t1) /\ req[s].header = req[r].header
        /\ req[r].verified /\ req[s].verified
        /\ req[r].verifyCalls = 1 /\ req[s].verifyCalls = 1
        /\ Forwarded(req[r]) /\ Forwarded(req[s])
        /\ req[r].down = req[s].down /\ req[r].down["X-User-ID"] = "u1"

\* the failure classes of section 7, read off the auth backend's answer
FailureClass(ans) ==
    IF ans.kind = "neterr" THEN "upstream unavailable"
    ELSE IF ans.kind # "resp" THEN "none"
    ELSE IF ans.status # StatusOK THEN "non-success status"
    ELSE IF ~ans.decodes THEN "malformed upstream response"
    ELSE IF ans.userID = "" \/ ans.role = "" THEN "incomplete identity"
    ELSE "none"

\* C10: every failure of the verifier (auth backend unreachable, non-success
\* status, undecodable success payload, incomplete identity) gives the same
\* 401 with no forwarding, and the error the gate logs differs between the
\* failure classes.
C10_FailuresCollapseLogsDiffer ==
    /\ \A r \in Requests :
           FailureClass(req[r].ans) # "none" =>
               /\ Done(req[r]) /\ req[r].status = StatusUnauthorized
               /\ req[r].body = "invalid JWT"
               /\ ~Forwarded(req[r]) /\ req[r].logged # NoErr
    /\ \A r, s \in Requests :
           (/\ FailureClass(req[r].ans) # "none" /\ FailureClass(req[s].ans) # "none"
            /\ FailureClass(req[r].ans) # FailureClass(req[s].ans)) =>
               /\ req[r].logged.fmt # req[s].logged.fmt
               /\ <<req[r].status, req[r].body>> = <<req[s].status, req[s].body>>

\* C10 witness: an unreachable auth backend and an incomplete identity, both
\* answered 401, logged differently
C10_Witness ==
    \E r, s \in Requests :
        /\ req[r].ans = NetErr /\ GateRejected(req[r])
        /\ req[s].ans = Resp(StatusOK, "u1", "", "alice", "") /\ GateRejected(req[s])
        /\ req[r].logged # req[s].logged

\* the routing rules that match a path
MatchingRules(path) == {i \in 1..Len(Routes) : RouteMatches(Routes[i], path)}

\* the same, tabulated for the sampled paths
RulesFor == [p \in Paths |-> MatchingRules(p)]

\* the sampled paths in canonical form, the only ones the router matches
\* against its rules
CanonicalPaths == {p \in Paths : cleanPath(p) = p}

\* C11: a request is dispatched to at most one backend, the one of a routing
\* rule that matches its path; a request for which the router finds no
\* matching rule (a path not under /api/) gets 404 and is forwarded to no
\* backend, and no request whose path matches no rule is ever forwarded.
C11_OneBackendOrNotFound ==
    \A r \in Requests :
        LET q == req[r] IN
        /\ q.attempts <= 1
        /\ Forwarded(q) =>
               \E i \in RulesFor[q.path] : Routes[i].target = q.target
        /\ (Arrived(q) /\ RulesFor[q.path] = {}) =>
               /\ Done(q) /\ ~Forwarded(q) /\ ~VerifierInvoked(q)
               /\ q.target = "none" /\ q.upstream = "none"
               /\ q.path \in CanonicalPaths =>
                      q.status = StatusNotFound /\ q.body = "404 page not found"

\* C11 witness: /health with a valid bearer header answered 404 and never
\* forwarded, next to a request forwarded once to the blog backend
C11_Witness ==
    \E r, s \in Requests :
        /\ req[r].path = P_health /\ AuthorizationOf(req[r]) = A_bearer_t1
        /\ req[r].status = StatusNotFound /\ ~Forwarded(req[r])
        /\ req[s].path = P_blog /\ req[s].attempts = 1 /\ req[s].target = "blog"
        /\ Done(req[s])

\* C12 as stated: every request the gateway is handling is eventually
\* answered even when a dependency never answers, because a hung verification
\* call and a hung forward are both ended by a timeout; in finite form, a
\* request that arrived and is not answered yet always has a step of the
\* gateway (a return of the outbound call, or a timeout) that ends it.
C12_HungDependencyEndedByTimeout ==
    \A r \in Requests :
        (Arrived(req[r]) /\ ~Done(req[r])) => ENABLED Completes(r)

\* C13 as stated: once the caller of a request has disconnected, no outbound
\* call made on its behalf (verification or forward) is left in flight.
C13_DisconnectAbortsOutboundCalls ==
    \A r \in Requests :
        req[r].callerGone => req[r].pc \notin {"verifying", "forwarding"}

\* an address that names a backend the gateway can call
WellFormedEndpoint(u) == u = "http://svc:8080"

\* C14 as stated: the server listens, and a request is served, only when all
\* four backend addresses are present and well-formed endpoints; with an
\* absent or malformed address startup fails.
C14_ServesOnlyWithWellFormedAddresses ==
    /\ phase = "serving" => \A k \in ServiceNames : WellFormedEndpoint(Config[k])
    /\ (\E r \in Requests : Arrived(req[r])) =>
           \A k \in ServiceNames : WellFormedEndpoint(Config[k])
    /\ (\E k \in ServiceNames : ~WellFormedEndpoint(Config[k])) => phase # "serving"

\* the auth backend answered the request's validation call with a status
\* other than 200
NonSuccessAnswer(q) == q.ans.kind = "resp" /\ q.ans.status # StatusOK

\* C15: when the auth backend answers the validation call with a non-success
\* status, validateJWT returns an error and no identity, also when the payload
\* names a userID and a role; the error carries the payload's error message
\* when the payload decodes and the message is non-empty, and the raw status
\* code otherwise.
C15_NonSuccessStatusIsAnError ==
    \A r \in Requests :
        LET q == req[r] IN
        NonSuccessAnswer(q) =>
            /\ q.logged # NoErr
            /\ ~q.verified /\ q.identity = Result("", "", "", NoErr)
            /\ ~Forwarded(q) /\ q.down = NoHeaders
            /\ GateRejected(q) /\ q.body = "invalid JWT"
            /\ IF q.ans.decodes /\ q.ans.error # ""
               THEN q.logged = Err("AuthService error: %s", q.ans.error, 0)
               ELSE q.logged = Err("AuthService returned status: %d", "", q.ans.status)

\* C15 witness: a 401 whose payload names a user and a role and has no error
\* message (raw status reported), next to a 401 with an error message
C15_Witness ==
    \E r, s \in Requests :
        /\ req[r].ans = Resp(StatusUnauthorized, "u1", "admin", "alice", "")
        /\ req[r].logged.code = StatusUnauthorized
        /\ req[s].ans = Resp(StatusUnauthorized, "", "", "", "token expired")
        /\ req[s].logged.arg = "token expired"

\* the identity the request's own verification produced
OwnIdentity(q) == validateJWT(q.ans)

\* C16: under any interleaving of concurrently handled requests, a verified
\* request is forwarded with its own headers plus the identity returned by the
\* verification of its own token, never another request's; a step of one
\* request changes no other request, and once the server is serving, the
\* shared configuration (addresses, proxies) is never written again.
C16_NoSharedStateAcrossRequests ==
    /\ [](\A r \in Requests :
            LET q == req[r] IN
            (Forwarded(q) /\ q.verified) =>
                /\ AuthorizationOf(q) = S_Bearer \o <<SP>> \o q.token
                /\ OwnIdentity(q).err = NoErr
                /\ q.identity = OwnIdentity(q)
                /\ q.down = SetIdentityHeaders(q.header, OwnIdentity(q)))
    /\ [][/\ \A r, s \in Requests :
               (r # s /\ req'[r] # req[r]) => req'[s] = req[s]
          /\ Config' = Config
          /\ phase = "serving" =>
                 /\ phase' = phase /\ gateway' = gateway
                 /\ gateway = NewGateway(Config)]_vars

\* C16 witness: two requests with different tokens in flight at the same
\* time, both verified and forwarded, each with the identity of its own answer
C16_Witness ==
    \E r, s \in Requests :
        /\ req[r].pc = "forwarding" /\ req[s].pc = "forwarding"
        /\ req[r].token = <<"t", "1">> /\ req[s].token = <<"t", "2">>
        /\ req[r].verified /\ req[s].verified
        /\ req[r].down["X-User-ID"] = "u1" /\ req[s].down["X-User-ID"] = "u2"
        /\ req[r].ans.userID = "u1" /\ req[s].ans.userID = "u2"

\* C17: for a request under /api/auth/ the gate changes nothing: the request
\* goes to the router's handler with the path it came with and with exactly
\* the headers it came with, the caller's Authorization, X-User-ID,
\* X-User-Role and X-Username included, and the gate records no identity.
C17_BypassLeavesRequestUnchanged ==
    \A r \in Requests :
        LET q == req[r] IN
        (UnderBypassPrefix(q) /\ Arrived(q)) =>
            /\ Forwarded(q) /\ q.target = "auth"
            /\ q.down = q.header
            /\ q.token = <<>> /\ q.identity = Result("", "", "", NoErr)
            /\ q.logged = NoErr

\* C17 witness: a bypassed request that came with a non-bearer Authorization
\* and all three identity headers, handed on with the same values
C17_Witness ==
    \E r \in Requests :
        LET q == req[r] IN
        /\ q.path = P_authjwt /\ Forwarded(q)
        /\ q.header = WithHeaders(Authorization(A_basic), Spoofed)
        /\ q.down["X-User-ID"] = "root" /\ q.down["X-User-Role"] = "superadmin"
        /\ q.down["X-Username"] = "mallory" /\ q.down["Authorization"] = A_basic

====
